---- MODULE Spec2Model ----
(***************************************************************************)
(* A model of the TruSTAR Python client (trustar/TruStar.py) and of the    *)
(* RequestQuota record (trustar/models/request_quota.py).                  *)
(*                                                                         *)
(* Four specifications share the module:                                   *)
(*   SpecNormalize  the static method normalize_timestamp, applied to      *)
(*                  inputs of every kind under several local time zones;   *)
(*   SpecQuota      RequestQuota.to_dict / from_dict;                      *)
(*   SpecFetchAll   fetch_all over a paginated endpoint, as the            *)
(*                  specification of the paginator describes it;           *)
(*   Spec           the client object: its configuration and the HTTP      *)
(*                  requests its operations hand to the transport, with a  *)
(*                  service that keeps the report submitted.               *)
(*                                                                         *)
(* TLC's integers are 32 bits wide, Python's are unbounded.  A Python int  *)
(* is therefore kept as [hi, lo] standing for 1000 * hi + lo, and a point  *)
(* in time as [day, sod, us]: days since 1970-01-01, second of the day and *)
(* microsecond of the second.                                              *)
(***************************************************************************)
EXTENDS Integers, Sequences, FiniteSets, TLC

VARIABLES env,     \* the process's surroundings: local time zone and clock
          nt,      \* normalize_timestamp: its argument and outcome
          rq,      \* RequestQuota: the object or payload at hand, and the results
          config,  \* the client's attributes set by __init__
          call,    \* the client operation invoked last, and its outcome
          wire,    \* the HTTP requests the last operation handed to the transport
          nCalls,  \* operations invoked so far
          nSent,   \* HTTP requests issued so far
          server,  \* the report the service holds, as it read it from the requests
          submitted, \* the title and body the caller passed for that report
          pg       \* fetch_all: one pass over a paginated endpoint

vars == <<env, nt, rq, config, call, wire, nCalls, nSent, server, submitted, pg>>

(***************************************************************************)
(* Python values.  None is the empty tuple and a present value v is <<v>>, *)
(* so that an optional value of any type compares with None.               *)
(***************************************************************************)
None == <<>>

Some(v) == <<v>>

Ok(v) == [ok |-> TRUE, val |-> v, exc |-> ""]

Raise(e) == [ok |-> FALSE, val |-> None, exc |-> e]

\* A Python int n, as hi = n // 1000 and lo = n % 1000.
Big(hi, lo) == [hi |-> hi, lo |-> lo]

BigGT(a, b) == a.hi > b.hi \/ (a.hi = b.hi /\ a.lo > b.lo)

(***************************************************************************)
(* Points in time and their arithmetic.                                    *)
(***************************************************************************)
SecondsPerDay == 86400

\* 0001-01-01 and 9999-12-31, the days datetime.MINYEAR and MAXYEAR bound.
MinDay == -719162

MaxDay == 2932896

TS(day, sod, us) == [day |-> day, sod |-> sod, us |-> us]

TSLess(a, b) ==
    \/ a.day < b.day
    \/ a.day = b.day /\ a.sod < b.sod
    \/ a.day = b.day /\ a.sod = b.sod /\ a.us < b.us

TSMin(a, b) == IF TSLess(b, a) THEN b ELSE a

\* n seconds after the point a (n may be negative).
AddSeconds(a, n) ==
    LET total == a.sod + n
    IN  TS(a.day + (total \div SecondsPerDay), total % SecondsPerDay, a.us)

InRange(a) == MinDay <= a.day /\ a.day <= MaxDay

\* The point n seconds after the epoch, for an int n.
SecondsTS(n) ==
    LET A   == n.hi \div SecondsPerDay
        B   == n.hi % SecondsPerDay
        rem == 1000 * B + n.lo
    IN  TS(1000 * A + (rem \div SecondsPerDay), rem % SecondsPerDay, 0)

\* The point n / 1000 seconds after the epoch (true division: the
\* remainder n % 1000 stays as the fraction of the second).
MillisTS(n) ==
    TS(n.hi \div SecondsPerDay, n.hi % SecondsPerDay, 1000 * n.lo)

(***************************************************************************)
(* The proleptic Gregorian calendar: the civil date of a day number.       *)
(***************************************************************************)
CivilFromDays(day) ==
    LET z   == day + 719468
        era == z \div 146097
        doe == z - era * 146097
        yoe == (doe - (doe \div 1460) + (doe \div 36524) - (doe \div 146096)) \div 365
        doy == doe - (365 * yoe + (yoe \div 4) - (yoe \div 100))
        mp  == (5 * doy + 2) \div 153
        d   == doy - ((153 * mp + 2) \div 5) + 1
        m   == IF mp < 10 THEN mp + 3 ELSE mp - 9
        y   == yoe + era * 400 + (IF m <= 2 THEN 1 ELSE 0)
    IN  [year |-> y, month |-> m, dom |-> d]

\* The day number of a civil date.
DaysFromCivil(year, month, dom) ==
    LET y   == IF month <= 2 THEN year - 1 ELSE year
        era == y \div 400
        yoe == y - era * 400
        doy == ((153 * (IF month > 2 THEN month - 3 ELSE month + 9) + 2) \div 5) + dom - 1
        doe == yoe * 365 + (yoe \div 4) - (yoe \div 100) + doy
    IN  era * 146097 + doe - 719468

\* The first Sunday of a month (day 0, 1970-01-01, is a Thursday).
FirstSunday(year, month) ==
    LET SundayFrom(day) == day + ((10 - (day % 7)) % 7)
    IN  SundayFrom(DaysFromCivil(year, month, 1))

(***************************************************************************)
(* Text is a tuple of one-character strings, so that a prefix or a suffix  *)
(* of what the program returns can be read off.                            *)
(***************************************************************************)
Digits == <<"0", "1", "2", "3", "4", "5", "6", "7", "8", "9">>

Digit(n) == Digits[n + 1]

Pad2(n) == <<Digit((n \div 10) % 10), Digit(n % 10)>>

Pad4(n) == Pad2(n \div 100) \o Pad2(n % 100)

Pad6(n) == Pad2(n \div 10000) \o Pad4(n % 10000)

(***************************************************************************)
(* datetime values: the wall-clock fields and tz, the UTC offset in        *)
(* minutes of the attached tzinfo, None for a naive value.                 *)
(***************************************************************************)
DateTime(w, tz) == [day |-> w.day, sod |-> w.sod, us |-> w.us, tz |-> tz]

Wall(dt) == TS(dt.day, dt.sod, dt.us)

\* The point in time an aware datetime stands for.
Instant(dt) == AddSeconds(Wall(dt), 0 - 60 * dt.tz[1])

\* utcoffset().isoformat part: +HH:MM or -HH:MM.
OffsetText(minutes) ==
    LET a == IF minutes < 0 THEN 0 - minutes ELSE minutes
    IN  <<IF minutes < 0 THEN "-" ELSE "+">> \o Pad2(a \div 60) \o <<":">> \o Pad2(a % 60)

\* datetime.isoformat(): YYYY-MM-DDTHH:MM:SS[.ffffff][+HH:MM]
isoformat(dt) ==
    LET c == CivilFromDays(dt.day)
    IN  Pad4(c.year) \o <<"-">> \o Pad2(c.month) \o <<"-">> \o Pad2(c.dom) \o <<"T">>
        \o Pad2(dt.sod \div 3600) \o <<":">> \o Pad2((dt.sod \div 60) % 60)
        \o <<":">> \o Pad2(dt.sod % 60)
        \o (IF dt.us # 0 THEN <<".">> \o Pad6(dt.us) ELSE <<>>)
        \o (IF dt.tz # None THEN OffsetText(dt.tz[1]) ELSE <<>>)

(***************************************************************************)
(* The local time zone: the one the C library's localtime() applies, and   *)
(* which get_localzone() returns as a pytz zone.  std and dst are the      *)
(* zone's standard and daylight-saving offsets, in minutes east of UTC.    *)
(***************************************************************************)
ZoneUTC == [name |-> "UTC", std |-> 0, dst |-> 0, hasDst |-> FALSE]

\* UTC+5, no daylight saving
ZoneEast == [name |-> "Etc/GMT-5", std |-> 300, dst |-> 300, hasDst |-> FALSE]

\* UTC-5, no daylight saving
ZoneWest == [name |-> "Etc/GMT+5", std |-> -300, dst |-> -300, hasDst |-> FALSE]

\* Local mean time until 1883, then UTC-5 with daylight saving at UTC-4 by
\* the rules of New York and, from 1967, of the United States.
ZoneNewYork == [name |-> "America/New_York", std |-> -300, dst |-> -240, hasDst |-> TRUE]

Zones == {ZoneUTC, ZoneEast, ZoneWest, ZoneNewYork}

\* The day daylight saving begins in New York in a year from 1918 on, at
\* 02:00 standard time (07:00 UTC): the last Sunday of March, then of April,
\* 6 January 1974 and 23 February 1975, the first Sunday of April from 1987
\* and the second of March from 2007.
DaylightBegins(year) ==
    IF year = 1974 THEN DaysFromCivil(1974, 1, 6)
    ELSE IF year = 1975 THEN DaysFromCivil(1975, 2, 23)
    ELSE FirstSunday(year, IF year <= 1920 THEN 4
                           ELSE IF year <= 1986 THEN 5
                           ELSE IF year <= 2006 THEN 4 ELSE 3)
         + (IF year <= 1986 THEN -7 ELSE IF year <= 2006 THEN 0 ELSE 7)

\* The day it ends, at 02:00 daylight time (06:00 UTC): the last Sunday of
\* October, of September from 1921 to 1954, the first of November from 2007.
DaylightEnds(year) ==
    FirstSunday(year, IF 1921 <= year /\ year <= 1954 THEN 10 ELSE 11)
    - (IF year <= 2006 THEN 7 ELSE 0)

\* The offset in seconds localtime() applies at the point in time t.  In
\* New York: local mean time (-4:56:02) until 1883-11-18T17:00:00Z, no
\* daylight saving before 1918, daylight time throughout from
\* 1942-02-09T07:00:00Z to 1945-09-30T06:00:00Z, and the yearly rule
\* otherwise, without end.
localtime_offset(zone, t) ==
    LET daylight(year) ==
            \/ /\ ~TSLess(t, TS(DaysFromCivil(1942, 2, 9), 25200, 0))
               /\ TSLess(t, TS(DaysFromCivil(1945, 9, 30), 21600, 0))
            \/ /\ ~TSLess(t, TS(DaylightBegins(year), 25200, 0))
               /\ TSLess(t, TS(DaylightEnds(year), 21600, 0))
    IN  IF ~zone.hasDst THEN 60 * zone.std
        ELSE IF TSLess(t, TS(DaysFromCivil(1883, 11, 18), 61200, 0)) THEN -17762
        ELSE IF TSLess(t, TS(DaysFromCivil(1918, 1, 1), 0, 0)) THEN 60 * zone.std
        ELSE IF daylight(CivilFromDays(t.day).year) THEN 60 * zone.dst
        ELSE 60 * zone.std

\* tzinfo.utcoffset() in minutes of the pytz zone at the point in time t.
\* pytz's table of America/New_York holds 32-bit times: local mean time,
\* rounded to the minute (-4:56), until 1901-12-13T20:45:52Z, and standard
\* time from its last entry, 2037-11-01T06:00:00Z, on.
UtcOffset(zone, t) ==
    IF ~zone.hasDst THEN zone.std
    ELSE IF TSLess(t, TS(DaysFromCivil(1901, 12, 13), 74752, 0)) THEN -296
    ELSE IF ~TSLess(t, TS(DaysFromCivil(2037, 11, 1), 21600, 0)) THEN zone.std
    ELSE localtime_offset(zone, t) \div 60

\* The zone's wall clock at the point in time t.
LocalWall(zone, t) == AddSeconds(t, localtime_offset(zone, t))

\* datetime.now(): the naive local wall clock.
datetime_now(zone, clock) == DateTime(LocalWall(zone, clock), None)

\* int(time.time())
time_time_int(clock) == TS(clock.day, clock.sod, 0)

\* datetime.fromtimestamp(t): the naive local wall clock at t.  CPython
\* converts t and, to detect a fold, the point one day before t; either
\* falling outside years 1..9999 raises ValueError.
fromtimestamp(zone, t) ==
    LET naive(wall) == IF InRange(wall) THEN Ok(DateTime(wall, None)) ELSE Raise("ValueError")
    IN  IF ~InRange(LocalWall(zone, AddSeconds(t, 0 - SecondsPerDay))) THEN Raise("ValueError")
        ELSE naive(LocalWall(zone, t))

\* pytz's zone.localize(dt) with is_dst=False.  A zone without transitions
\* attaches itself.  A zone with transitions looks a day to either side of
\* dt (OverflowError outside years 1..9999) for the offsets in force there,
\* and keeps those under which dt is a wall-clock reading.  Of two it takes
\* the one that is not daylight time, and the later point in time when
\* neither is; when there is none, dt lies in a gap and gets the offset of
\* six hours earlier.
localize(zone, dt) ==
    LET fits(w) ==
            {o \in {UtcOffset(zone, AddSeconds(w, 0 - SecondsPerDay)),
                    UtcOffset(zone, AddSeconds(w, SecondsPerDay))} :
                UtcOffset(zone, AddSeconds(w, 0 - 60 * o)) = o}
        notDst(os) == IF os \ {zone.dst} = {} THEN os ELSE os \ {zone.dst}
        least(os) == CHOOSE o \in os : \A other \in os : o <= other
        pick(here, earlier) == least(notDst(IF here # {} THEN here ELSE earlier))
    IN  IF ~zone.hasDst THEN Ok(DateTime(Wall(dt), Some(zone.std)))
        ELSE IF \/ ~InRange(AddSeconds(Wall(dt), 0 - SecondsPerDay))
                \/ ~InRange(AddSeconds(Wall(dt), SecondsPerDay))
             THEN Raise("OverflowError")
             ELSE Ok(DateTime(Wall(dt),
                              Some(pick(fits(Wall(dt)),
                                        fits(AddSeconds(Wall(dt), 0 - 21600))))))

\* dt.astimezone(pytz.utc), for an aware dt.
astimezone_utc(dt) ==
    IF InRange(Instant(dt)) THEN Ok(DateTime(Instant(dt), Some(0)))
    ELSE Raise("OverflowError")

(***************************************************************************)
(* The arguments of normalize_timestamp, by Python type.                   *)
(***************************************************************************)
NoDateTime == DateTime(TS(0, 0, 0), None)

IntArg(n) == [kind |-> "int", n |-> n, s |-> "", dt |-> NoDateTime]

StrArg(s) == [kind |-> "str", n |-> Big(0, 0), s |-> s, dt |-> NoDateTime]

DateTimeArg(dt) == [kind |-> "datetime", n |-> Big(0, 0), s |-> "", dt |-> dt]

NoneArg == [kind |-> "None", n |-> Big(0, 0), s |-> "", dt |-> NoDateTime]

\* a value of a type the function does not know: a float, a list
OtherArg == [kind |-> "other", n |-> Big(0, 0), s |-> "", dt |-> NoDateTime]

\* dateutil.parser.parse(s) on the strings of the model: a naive value for a
\* string without offset, an aware one for a string with offset, ValueError
\* for text that holds no date.
dateutil_parse(s) ==
    CASE s = "2017-02-23T23:01:54"       -> Ok(DateTime(TS(17220, 82914, 0), None))
      [] s = "2017-02-23T23:01:54+0000"  -> Ok(DateTime(TS(17220, 82914, 0), Some(0)))
      [] s = "2017-02-23T23:01:54+05:30" -> Ok(DateTime(TS(17220, 82914, 0), Some(330)))
      [] s = "2017-02-23T23:01:54-08:00" -> Ok(DateTime(TS(17220, 82914, 0), Some(-480)))
      [] s = "2017-11-05T01:30:00"       -> Ok(DateTime(TS(17475, 5400, 0), None))
      [] s = "0001-01-01T00:00:00"       -> Ok(DateTime(TS(MinDay, 0, 0), None))
      [] s = "9999-12-31T23:59:59"       -> Ok(DateTime(TS(MaxDay, 86399, 0), None))
      [] OTHER                           -> Raise("ValueError")

\* 9,999,999,999: an int above it is taken to be in milliseconds.
MsThreshold == Big(9999999, 999)

\* The try block of normalize_timestamp: the datetime the argument converts
\* to, or the exception raised on the way.  now1 is the datetime.now() of
\* the function's first line, current_time its int(time.time()).
convert(date_time, zone, now1, current_time) ==
    CASE date_time.kind = "int" ->
           LET t == IF BigGT(date_time.n, MsThreshold)
                    THEN MillisTS(date_time.n) ELSE SecondsTS(date_time.n)
           IN  fromtimestamp(zone, IF TSLess(current_time, t) THEN current_time ELSE t)
      [] date_time.kind = "str" -> dateutil_parse(date_time.s)
      [] date_time.kind = "datetime" -> Ok(date_time.dt)
      [] OTHER -> Ok(now1)

\* What follows the try block: a naive value gets the local zone and is
\* moved to UTC, an aware value is left as it is.  Neither step is guarded.
to_utc_if_naive(datetime_dt, zone) ==
    LET to_utc(loc) == IF loc.ok THEN astimezone_utc(loc.val) ELSE loc
    IN  IF datetime_dt.tz = None THEN to_utc(localize(zone, datetime_dt))
        ELSE Ok(datetime_dt)

\* TruStar.normalize_timestamp(date_time), called in the zone `zone` while
\* the clock reads c1 (datetime.now(), first line), c2 (time.time()) and c3
\* (datetime.now() of the except block).
normalize_timestamp(date_time, zone, c1, c2, c3) ==
    LET outcome(dt, final, fallback) ==
            [raised      |-> ~final.ok,
             exc         |-> final.exc,
             fallback    |-> fallback,
             datetime_dt |-> IF final.ok THEN final.val ELSE dt,
             ret         |-> IF final.ok THEN isoformat(final.val) ELSE <<>>]
        after_try(dt, fallback) == outcome(dt, to_utc_if_naive(dt, zone), fallback)
        tried(conv) ==
            after_try(IF conv.ok THEN conv.val ELSE datetime_now(zone, c3), ~conv.ok)
    IN  tried(convert(date_time, zone, datetime_now(zone, c1), time_time_int(c2)))

(***************************************************************************)
(* The clock.  Ticks are the readings the model's calls can take, in       *)
(* order; env.clock is the index of the latest reading taken.  ImportClock *)
(* is the reading at which the module was imported.                        *)
(***************************************************************************)
\* 2017-11-05T05:33:20.5Z
ImportClock == TS(17475, 20000, 500000)

\* 2017-11-05T05:50:00.25Z, half a second later, and the second after.  In
\* New York this is 01:50 of the night daylight saving ends, the first of
\* the two times the clocks there show it.
Ticks == <<TS(17475, 21000, 250000), TS(17475, 21000, 750000), TS(17475, 21001, 100000)>>

TickIds == 1..Len(Ticks)

(***************************************************************************)
(* normalize_timestamp on its own.                                         *)
(***************************************************************************)
NormalizeArgs ==
    {IntArg(Big(0, 0)), IntArg(Big(-1, 999)),
     IntArg(Big(1487890, 914)), IntArg(Big(1487890914, 0)), IntArg(Big(1487890914, 123)),
     IntArg(Big(9999999, 999)), IntArg(Big(10000000, 0)),
     IntArg(Big(1509859, 800)), IntArg(Big(1509863, 400)),
     IntArg(Big(1509861, 0)), IntArg(Big(1509861, 1)), IntArg(Big(1509861000, 250)),
     IntArg(Big(2000000, 0)), IntArg(Big(2000000000, 0)),
     IntArg(Big(-62135597, 200)), IntArg(Big(-62135511, 600)),
     IntArg(Big(-100000000, 0)),
     StrArg("2017-02-23T23:01:54"), StrArg("2017-02-23T23:01:54+0000"),
     StrArg("2017-02-23T23:01:54+05:30"), StrArg("2017-02-23T23:01:54-08:00"),
     StrArg("2017-11-05T01:30:00"), StrArg("0001-01-01T00:00:00"),
     StrArg("9999-12-31T23:59:59"), StrArg("not a timestamp"), StrArg(""),
     DateTimeArg(DateTime(TS(17220, 82914, 0), None)),
     DateTimeArg(DateTime(TS(17220, 82914, 0), Some(0))),
     DateTimeArg(DateTime(TS(17220, 82914, 0), Some(330))),
     DateTimeArg(DateTime(TS(MaxDay, 86399, 999999), None)),
     NoneArg, OtherArg}

NoResult ==
    [raised |-> FALSE, exc |-> "", fallback |-> FALSE,
     datetime_dt |-> NoDateTime, ret |-> <<>>]

IdleNt == [pc |-> "idle", date_time |-> NoneArg, c1 |-> 1, c2 |-> 1, c3 |-> 1, out |-> NoResult]

\* A call of normalize_timestamp(nt.date_time): the clock readings are taken
\* in order, none before the latest one taken.
NormalizeTimestamp ==
    /\ nt.pc = "start"
    /\ \E c1, c2, c3 \in TickIds :
          /\ env.clock <= c1 /\ c1 <= c2 /\ c2 <= c3
          /\ LET out == normalize_timestamp(nt.date_time, env.zone,
                                            Ticks[c1], Ticks[c2], Ticks[c3])
             IN  nt' = [nt EXCEPT !.pc = IF out.raised THEN "raised" ELSE "returned",
                                  !.c1 = c1, !.c2 = c2, !.c3 = c3, !.out = out]
          /\ env' = [env EXCEPT !.clock = c3]
    /\ UNCHANGED <<rq, config, call, wire, nCalls, nSent, server, submitted, pg>>

(***************************************************************************)
(* RequestQuota.  A dict with string keys is a function on its keys; an    *)
(* attribute or dict value is None or <<v>>.                               *)
(***************************************************************************)
RequestQuota(guid, max_requests, used_requests, time_window, last_reset_time, next_reset_time) ==
    [guid            |-> guid,
     max_requests    |-> max_requests,
     used_requests   |-> used_requests,
     time_window     |-> time_window,
     last_reset_time |-> last_reset_time,
     next_reset_time |-> next_reset_time]

\* d.get(key)
dict_get(d, key) == IF key \in DOMAIN d THEN d[key] ELSE None

\* ModelBase.to_dict(remove_nones=True): the entries of the full dict whose
\* value is not None.
ModelBase_to_dict(full) ==
    [k \in {j \in DOMAIN full : full[j] # None} |-> full[k]]

\* to_dict with a key written twice: used_requests goes out under
\* 'maxRequests', and 'usedRequests' is never written.
to_dict_repeated_key(self, remove_nones) ==
    LET d == [guid          |-> self.guid,
              maxRequests   |-> self.used_requests,
              timeWindow    |-> self.time_window,
              lastResetTime |-> self.last_reset_time,
              nextResetTime |-> self.next_reset_time]
    IN  IF remove_nones THEN ModelBase_to_dict(d) ELSE d

\* RequestQuota.to_dict(self, remove_nones)
to_dict(self, remove_nones) ==
    LET d == [guid          |-> self.guid,
              maxRequests   |-> self.max_requests,
              usedRequests  |-> self.used_requests,
              timeWindow    |-> self.time_window,
              lastResetTime |-> self.last_reset_time,
              nextResetTime |-> self.next_reset_time]
    IN  IF remove_nones THEN ModelBase_to_dict(d) ELSE d

\* from_dict testing `not d` instead of `d is None`: an empty dict gives None.
from_dict_falsy(d) ==
    IF d = None \/ DOMAIN d[1] = {} THEN None
    ELSE Some(RequestQuota(dict_get(d[1], "guid"),
                           dict_get(d[1], "maxRequests"),
                           dict_get(d[1], "usedRequests"),
                           dict_get(d[1], "timeWindow"),
                           dict_get(d[1], "lastResetTime"),
                           dict_get(d[1], "nextResetTime")))

\* RequestQuota.from_dict(d): d is None or <<a dict>>; so is the result.
from_dict(d) ==
    IF d = None THEN None
    ELSE Some(RequestQuota(dict_get(d[1], "guid"),
                           dict_get(d[1], "maxRequests"),
                           dict_get(d[1], "usedRequests"),
                           dict_get(d[1], "timeWindow"),
                           dict_get(d[1], "lastResetTime"),
                           dict_get(d[1], "nextResetTime")))

\* The largest number a quota field holds in the model.
MaxQuotaValue == 2

QuotaValues == {None} \cup {Some(n) : n \in 1..MaxQuotaValue}

Quotas ==
    {RequestQuota(g, a, b, c, d, e) :
        g \in {None, Some("guid-1")}, a \in QuotaValues, b \in QuotaValues,
        c \in QuotaValues, d \in {None, Some(1)}, e \in {None, Some(2)}}

WireNames == {"guid", "maxRequests", "usedRequests", "timeWindow", "lastResetTime", "nextResetTime"}

\* Payloads as a server may send them: any of the wire names and of two
\* names the model does not know, each absent, null or holding a number.
PayloadKeys == WireNames \cup {"quotaType", "max_requests"}

Payloads ==
    {None} \cup
    {Some([k \in ks |-> IF k \in nulls THEN None
                         ELSE IF k = "guid" THEN Some("guid-1") ELSE Some(1)]) :
        ks \in SUBSET PayloadKeys, nulls \in SUBSET {"maxRequests", "quotaType"}}

NoQuota == RequestQuota(None, None, None, None, None, None)

IdleRq == [pc |-> "idle", x |-> NoQuota, d |-> None, back |-> None]

\* x.to_dict(remove_nones): the object at hand becomes a payload.
ToDict ==
    /\ rq.pc = "object"
    /\ \E remove_nones \in BOOLEAN :
          rq' = [rq EXCEPT !.pc = IF remove_nones THEN "partial" ELSE "dict",
                           !.d = Some(to_dict(rq.x, remove_nones))]
    /\ UNCHANGED <<env, nt, config, call, wire, nCalls, nSent, server, submitted, pg>>

\* RequestQuota.from_dict(d), of the payload at hand.
FromDict ==
    /\ rq.pc \in {"dict", "partial", "payload"}
    /\ rq' = [rq EXCEPT !.pc = CASE rq.pc = "dict"    -> "back"
                                  [] rq.pc = "partial" -> "backPartial"
                                  [] OTHER             -> "parsed",
                        !.back = from_dict(rq.d)]
    /\ UNCHANGED <<env, nt, config, call, wire, nCalls, nSent, server, submitted, pg>>

(***************************************************************************)
(* Text the program takes apart is a tuple of characters; Str joins such a *)
(* tuple into a string.                                                    *)
(***************************************************************************)
RECURSIVE Str(_)
Str(cs) == IF cs = <<>> THEN "" ELSE Head(cs) \o Str(Tail(cs))

\* Whether `needle` occurs in `hay` (Python's `needle in hay`).
Contains(hay, needle) ==
    \E i \in 1..(Len(hay) - Len(needle) + 1) :
        SubSeq(hay, i, i + Len(needle) - 1) = needle

\* hay.split(sep): the pieces of hay between the occurrences of sep.
RECURSIVE Split(_, _)
Split(hay, sep) ==
    IF ~Contains(hay, sep) THEN <<hay>>
    ELSE LET i == CHOOSE j \in 1..(Len(hay) - Len(sep) + 1) :
                      /\ SubSeq(hay, j, j + Len(sep) - 1) = sep
                      /\ \A k \in 1..(j - 1) : SubSeq(hay, k, k + Len(sep) - 1) # sep
         IN  <<SubSeq(hay, 1, i - 1)>> \o Split(SubSeq(hay, i + Len(sep), Len(hay)), sep)

\* [Str(x) : x in xs], in order
StrEach(xs) == [i \in 1..Len(xs) |-> Str(xs[i])]

(***************************************************************************)
(* The Python values handed to json.dumps and given by json.loads.  A      *)
(* value is tagged with its type; a dict is the tuple of its               *)
(* <<key, value>> items in insertion order.                                *)
(***************************************************************************)
PyNone == [t |-> "None"]

\* A str whose text is the tuple of pieces cs: each piece is a character
\* that JSON writes with an escape, on its own, or a run of other characters.
PyText(cs) == [t |-> "str", s |-> cs]

\* A str of plain characters (an id, a timestamp, a literal of the program).
PyStr(s) == PyText(IF s = "" THEN <<>> ELSE <<s>>)

PyBool(b) == [t |-> "bool", b |-> b]

PyList(items) == [t |-> "list", items |-> items]

PyDict(items) == [t |-> "dict", items |-> items]

\* an optional string (None or <<s>>) as a Python value
PyOptStr(o) == IF o = None THEN PyNone ELSE PyStr(o[1])

\* an optional text (None or <<pieces>>) as a Python value
PyOptText(o) == IF o = None THEN PyNone ELSE PyText(o[1])

PyOptBool(o) == IF o = None THEN PyNone ELSE PyBool(o[1])

PyStrList(xs) == PyList([i \in 1..Len(xs) |-> PyStr(xs[i])])

\* d[key] of a dict d, None when d has no such key (d.get(key))
py_get(d, key) ==
    IF d.t = "dict" /\ \E i \in DOMAIN d.items : d.items[i][1] = key
    THEN d.items[CHOOSE i \in DOMAIN d.items : d.items[i][1] = key][2]
    ELSE PyNone

(***************************************************************************)
(* json.dumps with its default separators.  JSON text is a tuple of        *)
(* pieces: the characters of the syntax one by one, and the runs of plain  *)
(* characters as they are.                                                 *)
(***************************************************************************)
json_escape_piece(c) ==
    CASE c = "\"" -> <<"\\", "\"">>
      [] c = "\\" -> <<"\\", "\\">>
      [] c = "\n" -> <<"\\", "n">>
      [] c = "\t" -> <<"\\", "t">>
      [] OTHER    -> <<c>>

RECURSIVE json_escape(_)
json_escape(cs) ==
    IF cs = <<>> THEN <<>> ELSE json_escape_piece(Head(cs)) \o json_escape(Tail(cs))

RECURSIVE json_dumps(_)
RECURSIVE json_join(_, _)
json_join(items, isDict) ==
    IF items = <<>> THEN <<>>
    ELSE (IF isDict THEN <<"\"", Head(items)[1], "\"", ":", " ">> \o json_dumps(Head(items)[2])
          ELSE json_dumps(Head(items)))
         \o (IF Len(items) > 1 THEN <<",", " ">> ELSE <<>>)
         \o json_join(Tail(items), isDict)

json_dumps(v) ==
    CASE v.t = "None" -> <<"null">>
      [] v.t = "str"  -> <<"\"">> \o json_escape(v.s) \o <<"\"">>
      [] v.t = "bool" -> IF v.b THEN <<"true">> ELSE <<"false">>
      [] v.t = "list" -> <<"[">> \o json_join(v.items, FALSE) \o <<"]">>
      [] v.t = "dict" -> <<"{">> \o json_join(v.items, TRUE) \o <<"}">>

(***************************************************************************)
(* json.loads of a text: the value it denotes, or ValueError.              *)
(***************************************************************************)
json_fail == [ok |-> FALSE, val |-> PyNone, next |-> 0]

json_read(v, next) == [ok |-> TRUE, val |-> v, next |-> next]

RECURSIVE json_skip(_, _)
json_skip(text, i) ==
    IF i <= Len(text) /\ text[i] = " " THEN json_skip(text, i + 1) ELSE i

json_unescape_piece(c) ==
    CASE c = "n" -> "\n"
      [] c = "t" -> "\t"
      [] OTHER   -> c

\* the string whose opening quote was read, from its piece i on
RECURSIVE json_string(_, _, _)
json_string(text, i, acc) ==
    IF i > Len(text) THEN json_fail
    ELSE IF text[i] = "\"" THEN json_read(PyText(acc), i + 1)
    ELSE IF text[i] = "\\"
    THEN IF i + 1 > Len(text) \/ text[i + 1] \notin {"\"", "\\", "n", "t"} THEN json_fail
         ELSE json_string(text, i + 2, Append(acc, json_unescape_piece(text[i + 1])))
    ELSE json_string(text, i + 1, Append(acc, text[i]))

RECURSIVE json_value(_, _)
RECURSIVE json_members(_, _, _)
RECURSIVE json_elements(_, _, _)

\* an object whose opening brace was read, from its first piece j that is
\* not a blank
json_object(text, j) ==
    IF j <= Len(text) /\ text[j] = "}" THEN json_read(PyDict(<<>>), j + 1)
    ELSE json_members(text, j, <<>>)

\* an array whose opening bracket was read, likewise
json_array(text, j) ==
    IF j <= Len(text) /\ text[j] = "]" THEN json_read(PyList(<<>>), j + 1)
    ELSE json_elements(text, j, <<>>)

\* the value that starts at piece i, which is not a blank
json_value_at(text, i) ==
    IF i > Len(text) THEN json_fail
    ELSE CASE text[i] = "null"  -> json_read(PyNone, i + 1)
           [] text[i] = "true"  -> json_read(PyBool(TRUE), i + 1)
           [] text[i] = "false" -> json_read(PyBool(FALSE), i + 1)
           [] text[i] = "\""    -> json_string(text, i + 1, <<>>)
           [] text[i] = "{"     -> json_object(text, json_skip(text, i + 1))
           [] text[i] = "["     -> json_array(text, json_skip(text, i + 1))
           [] OTHER             -> json_fail

json_value(text, i0) == json_value_at(text, json_skip(text, i0))

\* what follows a member or an element val, at piece after: the closing
\* piece, or a comma and the rest
json_member_end(text, val, after, items) ==
    IF ~val.ok \/ after > Len(text) THEN json_fail
    ELSE IF text[after] = "}" THEN json_read(PyDict(items), after + 1)
    ELSE IF text[after] = "," THEN json_members(text, after + 1, items)
    ELSE json_fail

json_member_read(text, key, val, acc) ==
    json_member_end(text, val, json_skip(text, val.next),
                    Append(acc, <<Str(key.val.s), val.val>>))

json_member_value(text, key, colon, acc) ==
    json_member_read(text, key,
                     IF key.ok /\ colon <= Len(text) /\ text[colon] = ":"
                     THEN json_value(text, colon + 1) ELSE json_fail,
                     acc)

json_member_at(text, i, acc) ==
    LET key == IF i <= Len(text) /\ text[i] = "\"" THEN json_string(text, i + 1, <<>>)
               ELSE json_fail
    IN  json_member_value(text, key, json_skip(text, key.next), acc)

\* the members of an object from piece i0 on, up to its closing brace
json_members(text, i0, acc) == json_member_at(text, json_skip(text, i0), acc)

json_element_end(text, val, after, items) ==
    IF ~val.ok \/ after > Len(text) THEN json_fail
    ELSE IF text[after] = "]" THEN json_read(PyList(items), after + 1)
    ELSE IF text[after] = "," THEN json_elements(text, after + 1, items)
    ELSE json_fail

\* the elements of an array from piece i0 on, up to its closing bracket
json_elements(text, i0, acc) ==
    LET val == json_value(text, i0)
    IN  json_element_end(text, val, json_skip(text, val.next), Append(acc, val.val))

json_loads_text(text) ==
    LET r == json_value(text, 1)
    IN  IF r.ok /\ json_skip(text, r.next) = Len(text) + 1 THEN Ok(r.val)
        ELSE Raise("ValueError")

(***************************************************************************)
(* The transport (the requests library) and what the server answers.       *)
(***************************************************************************)
Request(method, url, params, data, headers, auth, timeout, verify) ==
    [method |-> method, url |-> url, params |-> params, data |-> data,
     headers |-> headers, auth |-> auth, timeout |-> timeout, verify |-> verify]

\* The body of a response: JSON text holding the object obj, or other text.
Json(obj) == [json |-> TRUE, obj |-> obj]

NotJson == [json |-> FALSE, obj |-> [message |-> ""]]

\* A body given as its text.
Text(cs) == [text |-> cs]

Response(status, content) == [kind |-> "response", status |-> status, content |-> content]

\* No response: the connection failed (requests.exceptions.ConnectionError).
TransportError ==
    [kind |-> "error", status |-> 0, content |-> NotJson, exc |-> "ConnectionError"]

\* No answer within the timeout: requests.exceptions.ReadTimeout, which is
\* not a ConnectionError.
ReadTimeout ==
    [kind |-> "error", status |-> 0, content |-> NotJson, exc |-> "ReadTimeout"]

Responses ==
    {Response(200, Json([access_token |-> "tok-A", reportId |-> "r-1"])),
     Response(200, Json([message |-> "ok"])),
     Response(401, Json([message |-> "Access token expired"])),
     Response(500, NotJson),
     TransportError,
     ReadTimeout}

HttpOk(status) == 200 <= status /\ status <= 299

\* json.loads(resp.content), resp.json()
json_loads(content) ==
    IF "text" \in DOMAIN content THEN json_loads_text(content.text)
    ELSE IF content.json THEN Ok(content.obj) ELSE Raise("ValueError")

(***************************************************************************)
(* The client.  self is the record of the attributes __init__ sets; base   *)
(* is kept as characters because get_report_url takes it apart.  An        *)
(* operation is an operator from self, its arguments a and the server's    *)
(* answer resp to what it leaves behind: self, the requests sent, and the  *)
(* value returned or the exception raised.                                 *)
(***************************************************************************)
Done(self, sent, result) ==
    [self |-> self, sent |-> sent, raised |-> ~result.ok, exc |-> result.exc,
     ret |-> result.val]

\* A transport that sends the request again when no response came or the
\* response is not a success.
requests_request_retrying(req, resp) ==
    IF resp.kind = "error" \/ ~HttpOk(resp.status) THEN <<req, req>> ELSE <<req>>

\* One call of requests.get / post / put / delete: the requests it puts on
\* the wire.
requests_request(req, resp) == <<req>>

\* The call raises when no response came; else the body is decoded.  The
\* status code of the response is not looked at.
loads_content(resp) ==
    IF resp.kind = "error" THEN Raise(resp.exc) ELSE json_loads(resp.content)

\* The header built from the client's api key instead of the token passed.
bearer_of_api_key(access_token) == [Authorization |-> "Bearer key-1"]

bearer(access_token) == [Authorization |-> "Bearer " \o access_token]

bearer_json(access_token) ==
    ("Authorization" :> "Bearer " \o access_token) @@ ("content-Type" :> "application/json")

get_token(self, a, resp) ==
    LET client_auth == <<self.apikey, self.apisecret>>
        post_data   == [grant_type |-> "client_credentials"]
        req         == Request("POST", self.auth, None, Some(post_data), None,
                               Some(client_auth), None, Some(a.verify))
        token_json  == loads_content(resp)
    IN  Done(self, requests_request(req, resp),
             IF ~token_json.ok THEN token_json
             ELSE IF "access_token" \notin DOMAIN token_json.val THEN Raise("KeyError")
             ELSE Ok(token_json.val.access_token))

get_latest_reports(self, a, resp) ==
    LET req == Request("GET", Str(self.base) \o "/reports/latest", None, None,
                       Some(bearer(a.access_token)), None, None, None)
    IN  Done(self, requests_request(req, resp), loads_content(resp))

get_report_details(self, a, resp) ==
    LET payload == [id |-> a.report_id]
        req == Request("GET", Str(self.base) \o "/reports/details", Some(payload), None,
                       Some(bearer(a.access_token)), None, None, None)
    IN  Done(self, requests_request(req, resp), loads_content(resp))

get_report_details_v12(self, a, resp) ==
    LET url == Str(self.base) \o "/report/" \o a.report_id
        params == [idType |-> a.id_type]
        req == Request("GET", url, Some(params), None, Some(bearer(a.access_token)),
                       None, None, Some(a.verify))
    IN  Done(self, requests_request(req, resp), loads_content(resp))

\* update_report storing the parsed enclave ids on the client (self.enclaveIds
\* assigned where the local name is meant).
update_report_keeping_enclaves(self, a, resp) ==
    LET url == Str(self.base) \o "/report/" \o a.report_id
        params == [idType |-> a.id_type]
        enclave_ids == IF a.enclave_ids # None /\ a.enclave_ids[1] # <<>>
                       THEN PyStrList(StrEach(Split(a.enclave_ids[1], <<",">>)))
                       ELSE IF a.enclave_ids = None THEN PyNone ELSE PyStr("")
        payload == PyDict(<<
            <<"incidentReport", PyDict(<<
                <<"title", PyOptText(a.title)>>,
                <<"reportBody", PyOptText(a.report_body)>>,
                <<"timeDiscovered", PyOptStr(a.time_discovered)>>,
                <<"distributionType", PyOptStr(a.distribution)>> >>)>>,
            <<"enclaveIds", enclave_ids>>,
            <<"attributedToMe", PyOptBool(a.attribution)>> >>)
        req == Request("PUT", url, Some(params), Some(json_dumps(payload)),
                       Some(bearer_json(a.access_token)), None, None, Some(a.verify))
        kept == IF enclave_ids.t = "list"
                THEN [self EXCEPT !.enclaveIds = StrEach(Split(a.enclave_ids[1], <<",">>))]
                ELSE self
    IN  Done(kept, requests_request(req, resp), loads_content(resp))

update_report(self, a, resp) ==
    LET url == Str(self.base) \o "/report/" \o a.report_id
        params == [idType |-> a.id_type]
        enclave_ids == IF a.enclave_ids # None /\ a.enclave_ids[1] # <<>>
                       THEN PyStrList(StrEach(Split(a.enclave_ids[1], <<",">>)))
                       ELSE IF a.enclave_ids = None THEN PyNone ELSE PyStr("")
        payload == PyDict(<<
            <<"incidentReport", PyDict(<<
                <<"title", PyOptText(a.title)>>,
                <<"reportBody", PyOptText(a.report_body)>>,
                <<"timeDiscovered", PyOptStr(a.time_discovered)>>,
                <<"distributionType", PyOptStr(a.distribution)>> >>)>>,
            <<"enclaveIds", enclave_ids>>,
            <<"attributedToMe", PyOptBool(a.attribution)>> >>)
        req == Request("PUT", url, Some(params), Some(json_dumps(payload)),
                       Some(bearer_json(a.access_token)), None, None, Some(a.verify))
    IN  Done(self, requests_request(req, resp), loads_content(resp))

delete_report(self, a, resp) ==
    LET url == Str(self.base) \o "/report/" \o a.report_id
        params == [idType |-> a.id_type]
        req == Request("DELETE", url, Some(params), None, Some(bearer(a.access_token)),
                       None, None, Some(a.verify))
    IN  Done(self, requests_request(req, resp),
             IF resp.kind = "error" THEN Raise(resp.exc) ELSE Ok(resp))

query_latest_indicators(self, a, resp) ==
    LET payload == [source |-> a.source, types |-> a.indicator_types, limit |-> a.limit,
                    intervalSize |-> a.interval_size]
        req == Request("GET", Str(self.base) \o "/indicators/latest", Some(payload), None,
                       Some(bearer(a.access_token)), None, None, None)
    IN  Done(self, requests_request(req, resp), loads_content(resp))

get_correlated_reports(self, a, resp) ==
    LET payload == [q |-> a.indicator]
        req == Request("GET", Str(self.base) \o "/reports/correlate", Some(payload), None,
                       Some(bearer(a.access_token)), None, None, None)
    IN  Done(self, requests_request(req, resp), loads_content(resp))

query_indicators(self, a, resp) ==
    LET payload == [q |-> a.indicators, limit |-> a.limit]
        req == Request("GET", Str(self.base) \o "/indicators", Some(payload), None,
                       Some(bearer(a.access_token)), None, None, None)
    IN  Done(self, requests_request(req, resp), loads_content(resp))

\* The guard with its bound off by one: an empty list passes.
enclave_ids_missing_never(self, distribution_type) ==
    distribution_type = "ENCLAVE" /\ Len(self.enclaveIds) < 0

\* The guard of the two submissions: enclave mode with no enclave id
\* configured.
enclave_ids_missing(self, distribution_type) ==
    distribution_type = "ENCLAVE" /\ Len(self.enclaveIds) < 1

\* The request timeout of the two submissions, in seconds.
SubmitTimeout == 60

\* e is the surroundings normalize_timestamp reads: the local zone and the
\* clock readings c1, c2, c3.
submit_report(self, a, e, resp) ==
    LET distribution_type == IF a.enclave THEN "ENCLAVE" ELSE "COMMUNITY"
        payload(timeBegan) == PyDict(<<
            <<"incidentReport", PyDict(<<
                <<"title", PyText(a.report_name)>>,
                <<"timeBegan", PyStr(Str(timeBegan.ret))>>,
                <<"reportBody", PyText(a.report_body_txt)>>,
                <<"distributionType", PyStr(distribution_type)>> >>)>>,
            <<"enclaveIds", PyStrList(self.enclaveIds)>>,
            <<"attributedToMe", PyBool(self.attributedToMe)>> >>)
        req(timeBegan) == Request("POST", Str(self.base) \o "/reports/submit", None,
                                  Some(json_dumps(payload(timeBegan))),
                                  Some(bearer_json(a.access_token)),
                                  None, Some(SubmitTimeout), Some(a.verify))
        submit(timeBegan) ==
            IF enclave_ids_missing(self, distribution_type)
            THEN Done(self, <<>>, Raise("Exception"))
            ELSE IF timeBegan.raised
            THEN Done(self, <<>>, Raise(timeBegan.exc))
            ELSE Done(self, requests_request(req(timeBegan), resp), loads_content(resp))
    IN  submit(normalize_timestamp(a.began_time, e.zone, e.c1, e.c2, e.c3))

\* submit_report_v12 with report_name written where report_body_txt is meant.
submit_report_v12_name_as_body(self, a, e, resp) ==
    LET distribution_type == IF a.enclave THEN "ENCLAVE" ELSE "COMMUNITY"
        payload(timeBegan) == PyDict(<<
            <<"incidentReport", PyDict(<<
                <<"title", PyText(a.report_name)>>,
                <<"externalTrackingId", PyOptStr(a.external_id)>>,
                <<"timeBegan", PyStr(Str(timeBegan.ret))>>,
                <<"reportBody", PyText(a.report_name)>>,
                <<"distributionType", PyStr(distribution_type)>> >>)>>,
            <<"enclaveIds", PyStrList(self.enclaveIds)>>,
            <<"attributedToMe", PyBool(self.attributedToMe)>> >>)
        req(timeBegan) == Request("POST", Str(self.base) \o "/report", None,
                                  Some(json_dumps(payload(timeBegan))),
                                  Some(bearer_json(a.access_token)),
                                  None, Some(SubmitTimeout), Some(a.verify))
        submit(timeBegan) ==
            IF enclave_ids_missing(self, distribution_type)
            THEN Done(self, <<>>, Raise("Exception"))
            ELSE IF timeBegan.raised
            THEN Done(self, <<>>, Raise(timeBegan.exc))
            ELSE Done(self, requests_request(req(timeBegan), resp), loads_content(resp))
    IN  submit(normalize_timestamp(a.began_time, e.zone, e.c1, e.c2, e.c3))

submit_report_v12(self, a, e, resp) ==
    LET distribution_type == IF a.enclave THEN "ENCLAVE" ELSE "COMMUNITY"
        payload(timeBegan) == PyDict(<<
            <<"incidentReport", PyDict(<<
                <<"title", PyText(a.report_name)>>,
                <<"externalTrackingId", PyOptStr(a.external_id)>>,
                <<"timeBegan", PyStr(Str(timeBegan.ret))>>,
                <<"reportBody", PyText(a.report_body_txt)>>,
                <<"distributionType", PyStr(distribution_type)>> >>)>>,
            <<"enclaveIds", PyStrList(self.enclaveIds)>>,
            <<"attributedToMe", PyBool(self.attributedToMe)>> >>)
        req(timeBegan) == Request("POST", Str(self.base) \o "/report", None,
                                  Some(json_dumps(payload(timeBegan))),
                                  Some(bearer_json(a.access_token)),
                                  None, Some(SubmitTimeout), Some(a.verify))
        submit(timeBegan) ==
            IF enclave_ids_missing(self, distribution_type)
            THEN Done(self, <<>>, Raise("Exception"))
            ELSE IF timeBegan.raised
            THEN Done(self, <<>>, Raise(timeBegan.exc))
            ELSE Done(self, requests_request(req(timeBegan), resp), loads_content(resp))
    IN  submit(normalize_timestamp(a.began_time, e.zone, e.c1, e.c2, e.c3))

\* 'https://api.trustar.co'
ApiOrigin == <<"h", "t", "t", "p", "s", ":", "/", "/", "a", "p", "i", ".", "t", "r", "u", "s", "t", "a", "r", ".", "c", "o">>

\* 'https://station.trustar.co'
StationOrigin == <<"h", "t", "t", "p", "s", ":", "/", "/", "s", "t", "a", "t", "i", "o", "n", ".", "t", "r", "u", "s", "t", "a", "r", ".", "c", "o">>

get_report_url(self, a) ==
    LET base_url == IF Contains(self.base, ApiOrigin) THEN StationOrigin
                    ELSE Split(self.base, <<"/", "a", "p", "i", "/">>)[1]
    IN  Done(self, <<>>, Ok(Str(base_url) \o "/constellation/reports/" \o a.report_id))

(***************************************************************************)
(* The client's state after construction, and the arguments the model's    *)
(* callers pass.                                                           *)
(***************************************************************************)
Config(base, enclaveIds, attributedToMe) ==
    [auth |-> "https://api.trustar.co/oauth/token", base |-> base,
     apikey |-> "key-1", apisecret |-> "secret-1",
     enclaveIds |-> enclaveIds, attributedToMe |-> attributedToMe]

\* 'https://api.trustar.co/api/1.2'
ProductionBase == <<"h", "t", "t", "p", "s", ":", "/", "/", "a", "p", "i", ".", "t", "r", "u", "s", "t", "a", "r", ".", "c", "o", "/", "a", "p", "i", "/", "1", ".", "2">>

\* 'https://lab.test/api/1.2'
LabBase == <<"h", "t", "t", "p", "s", ":", "/", "/", "l", "a", "b", ".", "t", "e", "s", "t", "/", "a", "p", "i", "/", "1", ".", "2">>

\* enclave_ids absent from the file, or holding one or two ids
Configs ==
    {Config(ProductionBase, <<>>, FALSE),
     Config(LabBase, <<"enc-1">>, TRUE),
     Config(ProductionBase, <<"enc-1", "enc-2">>, FALSE)}

Tokens == {"tok-A", "tok-B"}

ReportIds == {"r-1"}

IdTypes == {None, Some("external")}

\* The default of began_time: datetime.now() evaluated once, when the class
\* body runs at import.
DefaultBegan_at_call(zone) == DateTimeArg(datetime_now(zone, Ticks[env.clock]))

DefaultBegan(zone) == DateTimeArg(datetime_now(zone, ImportClock))

BeganTimes(zone) ==
    {DefaultBegan(zone), NoneArg, StrArg("0001-01-01T00:00:00")}

\* The texts a caller gives as the body of a report: the tests' first, and
\* one with a quote, a backslash and a line break in it.
Bodies ==
    {<<"Blah blah blah">>,
     <<"say ", "\"", "hi", "\"", " c:", "\\", "n", "\n">>}

(***************************************************************************)
(* The service, as far as the reports go: it keeps the title and body of   *)
(* the report a submission brought, replaces those an update brings (a     *)
(* null leaves the field as it is), forgets the report on a delete, and    *)
(* answers a fetch with the report it holds.  It acts on a request only    *)
(* when it answers it with a success status.                               *)
(***************************************************************************)
server_accepts(sent, resp) ==
    sent # <<>> /\ resp.kind = "response" /\ HttpOk(resp.status)

server_report(data) ==
    LET doc == json_loads_text(data)
    IN  IF doc.ok THEN py_get(doc.val, "incidentReport") ELSE PyNone

server_receive(held, sent, resp) ==
    IF ~server_accepts(sent, resp) THEN held
    ELSE LET req == sent[Len(sent)]
             report == server_report(req.data[1])
             title == py_get(report, "title")
             body == py_get(report, "reportBody")
         IN  CASE req.method = "POST" /\ req.auth = None /\ req.data # None ->
                      IF report.t = "dict" THEN Some([title |-> title, reportBody |-> body])
                      ELSE held
               [] req.method = "PUT" /\ held # None /\ req.data # None ->
                      IF report.t = "dict"
                      THEN Some([title |-> IF title.t = "None" THEN held[1].title ELSE title,
                                 reportBody |-> IF body.t = "None" THEN held[1].reportBody
                                                ELSE body])
                      ELSE held
               [] req.method = "DELETE" -> None
               [] OTHER -> held

server_answers(held) ==
    IF held = None THEN {}
    ELSE {Response(200, Text(json_dumps(PyDict(<< <<"id", PyStr("r-1")>>,
                                                  <<"title", held[1].title>>,
                                                  <<"reportBody", held[1].reportBody>> >>))))}

\* What the caller has passed as title and body of the report the service
\* holds: those of the submission, replaced by those of later updates.
passed(before, op, a, accepted) ==
    IF ~accepted THEN before
    ELSE CASE op \in {"submit_report", "submit_report_v12"} ->
                  Some([title |-> a.report_name, body |-> a.report_body_txt])
           [] op = "update_report" /\ before # None ->
                  Some([title |-> IF a.title = None THEN before[1].title ELSE a.title[1],
                        body |-> IF a.report_body = None THEN before[1].body
                                 ELSE a.report_body[1]])
           [] op = "delete_report" -> None
           [] OTHER -> before

\* The zones the client's process runs in.
ClientZones == {ZoneUTC, ZoneEast}

\* The largest number of operations invoked on the client in one run.
MaxCalls == 3

NoResponse == [kind |-> "none", status |-> 0, content |-> NotJson]

\* The caller is about to invoke an operation: no call is under way.
IdleCall ==
    [pc |-> "ready", op |-> "", args |-> [verify |-> TRUE], raised |-> FALSE, exc |-> "",
     ret |-> None, resp |-> NoResponse]

\* The operation op, called with a, has had the effect r: it has returned
\* or raised, and the caller has not yet gone on.
Apply(op, a, r, resp) ==
    /\ call.pc = "ready"
    /\ nCalls < MaxCalls
    /\ config' = r.self
    /\ wire' = r.sent
    /\ call' = [pc |-> "done", op |-> op, args |-> a, raised |-> r.raised, exc |-> r.exc,
                ret |-> r.ret, resp |-> IF r.sent = <<>> THEN NoResponse ELSE resp]
    /\ nCalls' = nCalls + 1
    /\ nSent' = nSent + Len(r.sent)
    /\ server' = server_receive(server, r.sent, resp)
    /\ submitted' = passed(submitted, op, a, server_accepts(r.sent, resp))
    /\ UNCHANGED <<nt, rq, pg>>

GetToken ==
    \E verify \in BOOLEAN, resp \in Responses :
        LET a == [verify |-> verify]
        IN  Apply("get_token", a, get_token(config, a, resp), resp) /\ UNCHANGED env

GetLatestReports ==
    \E tok \in Tokens, resp \in Responses :
        LET a == [access_token |-> tok]
        IN  Apply("get_latest_reports", a, get_latest_reports(config, a, resp), resp)
            /\ UNCHANGED env

GetReportDetails ==
    \E tok \in Tokens, id \in ReportIds, resp \in Responses \cup server_answers(server) :
        LET a == [access_token |-> tok, report_id |-> id]
        IN  Apply("get_report_details", a, get_report_details(config, a, resp), resp)
            /\ UNCHANGED env

GetReportDetailsV12 ==
    \E tok \in Tokens, id \in ReportIds, idt \in IdTypes, verify \in BOOLEAN,
       resp \in Responses \cup server_answers(server) :
        LET a == [access_token |-> tok, report_id |-> id, id_type |-> idt, verify |-> verify]
        IN  Apply("get_report_details_v12", a, get_report_details_v12(config, a, resp), resp)
            /\ UNCHANGED env

UpdateReport ==
    \E tok \in Tokens, id \in ReportIds, title \in {None, Some(<<"Report 2">>)},
       body \in {None} \cup {Some(b) : b \in Bodies},
       encl \in {None, Some(<<>>), Some(<<"e", "1", ",", "e", "2">>)},
       rest \in BOOLEAN, resp \in Responses :
        LET a == [access_token |-> tok, report_id |-> id, id_type |-> None,
                  title |-> title, report_body |-> body,
                  time_discovered |-> IF rest THEN Some("2017-02-23T23:01:54+00:00") ELSE None,
                  distribution |-> IF rest THEN Some("ENCLAVE") ELSE None,
                  attribution |-> IF rest THEN Some(TRUE) ELSE None,
                  enclave_ids |-> encl, verify |-> TRUE]
        IN  Apply("update_report", a, update_report(config, a, resp), resp)
            /\ UNCHANGED env

DeleteReport ==
    \E tok \in Tokens, id \in ReportIds, idt \in IdTypes, verify \in BOOLEAN,
       resp \in Responses :
        LET a == [access_token |-> tok, report_id |-> id, id_type |-> idt, verify |-> verify]
        IN  Apply("delete_report", a, delete_report(config, a, resp), resp)
            /\ UNCHANGED env

QueryLatestIndicators ==
    \E tok \in Tokens, types \in {"ALL", "IP"}, resp \in Responses :
        LET a == [access_token |-> tok, source |-> "INCIDENT_REPORT",
                  indicator_types |-> types, limit |-> 5000, interval_size |-> 24]
        IN  Apply("query_latest_indicators", a, query_latest_indicators(config, a, resp), resp)
            /\ UNCHANGED env

GetCorrelatedReports ==
    \E tok \in Tokens, ind \in {"1.2.3.4", "1.2.3.4,evil.test"}, resp \in Responses :
        LET a == [access_token |-> tok, indicator |-> ind]
        IN  Apply("get_correlated_reports", a, get_correlated_reports(config, a, resp), resp)
            /\ UNCHANGED env

QueryIndicators ==
    \E tok \in Tokens, ind \in {"1.2.3.4 evil.test"}, resp \in Responses :
        LET a == [access_token |-> tok, indicators |-> ind, limit |-> 3]
        IN  Apply("query_indicators", a, query_indicators(config, a, resp), resp)
            /\ UNCHANGED env

\* The ticks of the clock that may pass from one reading of a client
\* operation's caller to the last reading of the operation.
MaxTicksPerCall == 1

\* The clock readings a call of normalize_timestamp takes, none before the
\* latest reading taken.
Readings ==
    {r \in [c1 : TickIds, c2 : TickIds, c3 : TickIds] :
        /\ env.clock <= r.c1 /\ r.c1 <= r.c2 /\ r.c2 <= r.c3
        /\ r.c3 <= env.clock + MaxTicksPerCall}

Surroundings(r) == [zone |-> env.zone, c1 |-> Ticks[r.c1], c2 |-> Ticks[r.c2], c3 |-> Ticks[r.c3]]

SubmitReport ==
    \E tok \in Tokens, began \in BeganTimes(env.zone), enclave \in BOOLEAN,
       r \in Readings, resp \in Responses :
        LET a == [access_token |-> tok, report_body_txt |-> <<"Blah blah blah">>,
                  report_name |-> <<"Report 1">>, began_time |-> began,
                  began_default |-> (began = DefaultBegan(env.zone)),
                  enclave |-> enclave, verify |-> TRUE]
        IN  /\ Apply("submit_report", a, submit_report(config, a, Surroundings(r), resp), resp)
            /\ env' = [env EXCEPT !.clock = r.c3]

SubmitReportV12 ==
    \E tok \in Tokens, ext \in {None, Some("ext-7")}, began \in BeganTimes(env.zone),
       body \in Bodies, enclave \in BOOLEAN, r \in Readings, resp \in Responses :
        LET a == [access_token |-> tok, report_body_txt |-> body,
                  report_name |-> <<"Report 1">>, external_id |-> ext, began_time |-> began,
                  began_default |-> (began = DefaultBegan(env.zone)),
                  enclave |-> enclave, verify |-> TRUE]
        IN  /\ Apply("submit_report_v12", a,
                     submit_report_v12(config, a, Surroundings(r), resp), resp)
            /\ env' = [env EXCEPT !.clock = r.c3]

GetReportUrl ==
    \E id \in ReportIds :
        LET a == [report_id |-> id]
        IN  Apply("get_report_url", a, get_report_url(config, a), NoResponse)
            /\ UNCHANGED env

\* normalize_timestamp called on the client object (it is a static method).
ClientNormalizeTimestamp ==
    \E began \in BeganTimes(env.zone), r \in Readings :
        LET result(out) == IF out.raised THEN Raise(out.exc) ELSE Ok(out.ret)
        IN  /\ Apply("normalize_timestamp", [date_time |-> began],
                     Done(config, <<>>,
                          result(normalize_timestamp(began, env.zone, Ticks[r.c1],
                                                     Ticks[r.c2], Ticks[r.c3]))),
                     NoResponse)
            /\ env' = [env EXCEPT !.clock = r.c3]

\* The caller takes the value or the exception and goes on.
Return ==
    /\ call.pc = "done"
    /\ call' = IdleCall
    /\ wire' = <<>>
    /\ UNCHANGED <<env, nt, rq, config, nCalls, nSent, server, submitted, pg>>

(***************************************************************************)
(* The paginator.  fetch_page(endpoint, cursor) gives a page: its items    *)
(* and whether a next cursor came with them.  fetch_all gives the items    *)
(* one by one as its consumer asks for them, and asks for a page only when *)
(* the consumer wants an item and none is at hand; an empty page or a page *)
(* without next cursor is the last one.                                    *)
(***************************************************************************)
MaxPages == 3

MaxPageItems == 2

Page(items, next) == [items |-> items, next |-> next]

\* The k-th page of an endpoint when it holds n items: item <<k, i>> is its i-th.
PageItems(k, n) == [i \in 1..n |-> <<k, i>>]

\* Whether a page tells the end of the stream.
terminal(page) == page.items = <<>> \/ ~page.next

\* The endpoints: the pages the service holds for one listing, the last of
\* them the first that tells the end, by either signal.
Endpoints ==
    {e \in UNION {[1..p -> {Page(PageItems(k, n), next) :
                                k \in 1..MaxPages, n \in 0..MaxPageItems, next \in BOOLEAN}] :
                   p \in 1..MaxPages} :
        /\ \A k \in 1..Len(e) : e[k].items = PageItems(k, Len(e[k].items))
        /\ \A k \in 1..Len(e) : terminal(e[k]) <=> k = Len(e)}

fetch_page(endpoint, cursor) ==
    IF cursor \in DOMAIN endpoint THEN endpoint[cursor] ELSE Page(<<>>, FALSE)

\* fetch_all asking for every page as soon as the one before has come.
wants_page_eager(p) == p.pc \in {"idle", "demand", "stopped"} /\ p.cursor # None

\* fetch_all asks for a page when its consumer waits for an item, none is
\* left of the pages fetched and the stream has not ended.
wants_page(p) == p.pc = "demand" /\ p.buffer = <<>> /\ p.cursor # None

IdlePg ==
    [pc |-> "off", pages |-> <<>>, cursor |-> None, buffer |-> <<>>, yielded |-> <<>>,
     requests |-> 0, atStop |-> 0]

\* fetch_all(endpoint, params) called: nothing is requested yet.
NewPass(endpoint) == [IdlePg EXCEPT !.pc = "idle", !.pages = endpoint, !.cursor = Some(1)]

\* The consumer asks for the next item.
Demand ==
    /\ pg.pc = "idle"
    /\ pg' = [pg EXCEPT !.pc = "demand"]
    /\ UNCHANGED <<env, nt, rq, config, call, wire, nCalls, nSent, server, submitted>>

\* fetch_all requests the page at its cursor; the request fails, or brings
\* the page.
FetchPage ==
    /\ wants_page(pg)
    /\ \E failed \in BOOLEAN :
          LET page == fetch_page(pg.pages, pg.cursor[1])
          IN  pg' = IF failed
                    THEN [pg EXCEPT !.pc = "failed", !.requests = @ + 1]
                    ELSE [pg EXCEPT !.requests = @ + 1,
                                    !.buffer = @ \o page.items,
                                    !.cursor = IF terminal(page) THEN None
                                               ELSE Some(pg.cursor[1] + 1)]
    /\ UNCHANGED <<env, nt, rq, config, call, wire, nCalls, nSent, server, submitted>>

\* fetch_all yields the next item to the consumer waiting for it.
Yield ==
    /\ pg.pc = "demand"
    /\ pg.buffer # <<>>
    /\ pg' = [pg EXCEPT !.pc = "idle", !.yielded = Append(@, Head(pg.buffer)),
                        !.buffer = Tail(@)]
    /\ UNCHANGED <<env, nt, rq, config, call, wire, nCalls, nSent, server, submitted>>

\* No item is left and no page: the stream ends.
EndOfStream ==
    /\ pg.pc = "demand"
    /\ pg.buffer = <<>>
    /\ pg.cursor = None
    /\ pg' = [pg EXCEPT !.pc = "ended"]
    /\ UNCHANGED <<env, nt, rq, config, call, wire, nCalls, nSent, server, submitted>>

\* The consumer stops consuming.
StopConsuming ==
    /\ pg.pc = "idle"
    /\ pg' = [pg EXCEPT !.pc = "stopped", !.atStop = pg.requests]
    /\ UNCHANGED <<env, nt, rq, config, call, wire, nCalls, nSent, server, submitted>>

(***************************************************************************)
(* The specifications.                                                     *)
(***************************************************************************)
InitFetchAll ==
    /\ env = [zone |-> ZoneUTC, clock |-> 1]
    /\ nt = IdleNt
    /\ rq = IdleRq
    /\ config = Config(ProductionBase, <<>>, FALSE)
    /\ call = IdleCall
    /\ wire = <<>>
    /\ nCalls = 0
    /\ nSent = 0
    /\ server = None
    /\ submitted = None
    /\ pg \in {NewPass(e) : e \in Endpoints}

NextFetchAll == Demand \/ FetchPage \/ Yield \/ EndOfStream \/ StopConsuming

SpecFetchAll == InitFetchAll /\ [][NextFetchAll]_vars

InitNormalize ==
    /\ env \in [zone : Zones, clock : {1}]
    /\ nt \in {[IdleNt EXCEPT !.pc = "start", !.date_time = d] : d \in NormalizeArgs}
    /\ rq = IdleRq
    /\ config = Config(ProductionBase, <<>>, FALSE)
    /\ call = IdleCall
    /\ wire = <<>>
    /\ nCalls = 0
    /\ nSent = 0
    /\ server = None
    /\ submitted = None
    /\ pg = IdlePg

NextNormalize == NormalizeTimestamp

SpecNormalize == InitNormalize /\ [][NextNormalize]_vars

InitQuota ==
    /\ env = [zone |-> ZoneUTC, clock |-> 1]
    /\ nt = IdleNt
    /\ rq \in {[IdleRq EXCEPT !.pc = "object", !.x = x] : x \in Quotas}
              \cup {[IdleRq EXCEPT !.pc = "payload", !.d = d] : d \in Payloads}
    /\ config = Config(ProductionBase, <<>>, FALSE)
    /\ call = IdleCall
    /\ wire = <<>>
    /\ nCalls = 0
    /\ nSent = 0
    /\ server = None
    /\ submitted = None
    /\ pg = IdlePg

NextQuota == ToDict \/ FromDict

SpecQuota == InitQuota /\ [][NextQuota]_vars

Init ==
    /\ env \in [zone : ClientZones, clock : {1}]
    /\ nt = IdleNt
    /\ rq = IdleRq
    /\ config \in Configs
    /\ call = IdleCall
    /\ wire = <<>>
    /\ nCalls = 0
    /\ nSent = 0
    /\ server = None
    /\ submitted = None
    /\ pg = IdlePg

Next ==
    \/ GetToken
    \/ GetLatestReports
    \/ GetReportDetails
    \/ GetReportDetailsV12
    \/ UpdateReport
    \/ DeleteReport
    \/ QueryLatestIndicators
    \/ GetCorrelatedReports
    \/ QueryIndicators
    \/ SubmitReport
    \/ SubmitReportV12
    \/ GetReportUrl
    \/ ClientNormalizeTimestamp
    \/ Return

Spec == Init /\ [][Next]_vars

(***************************************************************************)
(* Reading a returned timestamp: the datetime an ISO-8601 text with offset *)
(* denotes.  These operators serve the properties below; the program has   *)
(* no such code.                                                           *)
(***************************************************************************)
DigitValue(c) == CHOOSE n \in 0..9 : Digits[n + 1] = c

RECURSIVE Number(_)
Number(cs) == IF cs = <<>> THEN 0 ELSE 10 * Number(SubSeq(cs, 1, Len(cs) - 1)) + DigitValue(cs[Len(cs)])

\* The last six characters: the offset of a timestamp that has one.
OffsetOf(text) == SubSeq(text, Len(text) - 5, Len(text))

ParseIso(text) ==
    LET frac == Len(text) > 25
        off  == OffsetOf(text)
        mins == 60 * Number(SubSeq(off, 2, 3)) + Number(SubSeq(off, 5, 6))
    IN  [day |-> DaysFromCivil(Number(SubSeq(text, 1, 4)), Number(SubSeq(text, 6, 7)),
                               Number(SubSeq(text, 9, 10))),
         sod |-> 3600 * Number(SubSeq(text, 12, 13)) + 60 * Number(SubSeq(text, 15, 16))
                 + Number(SubSeq(text, 18, 19)),
         us  |-> IF frac THEN Number(SubSeq(text, 21, 26)) ELSE 0,
         tz  |-> Some(IF off[1] = "-" THEN 0 - mins ELSE mins)]

\* The point in time a returned timestamp denotes.
InstantOf(text) == Instant(ParseIso(text))

UtcOffsetText == <<"+", "0", "0", ":", "0", "0">>

(***************************************************************************)
(* C2 as stated: whatever the argument, the timestamp returned ends in the *)
(* UTC offset +00:00.                                                      *)
(***************************************************************************)
C2_AlwaysUtcOffset ==
    nt.pc = "returned" => OffsetOf(nt.out.ret) = UtcOffsetText

(***************************************************************************)
(* C3 as stated: normalize_timestamp never raises, and when the argument   *)
(* does not convert, what it returns is the current time.                  *)
(***************************************************************************)
C3_NeverRaises ==
    /\ nt.pc # "raised"
    /\ (nt.pc = "returned" /\ nt.out.fallback) =>
           InstantOf(nt.out.ret) = Ticks[nt.c3]

(***************************************************************************)
(* C4 as stated: for an int argument t the timestamp returned denotes      *)
(* min(t', now), t' being t / 1000 when t > 9,999,999,999 and t otherwise, *)
(* and so never a point later than the clock of the call; 9,999,999,999    *)
(* itself counts as seconds.                                               *)
(***************************************************************************)
C4_IntegerIsMinOfArgumentAndNow ==
    (nt.pc # "start" /\ nt.date_time.kind = "int") =>
        LET t   == nt.date_time.n
            t1  == IF BigGT(t, Big(9999999, 999)) THEN MillisTS(t) ELSE SecondsTS(t)
            now == time_time_int(Ticks[nt.c2])
        IN  /\ nt.pc = "returned"
            /\ InstantOf(nt.out.ret) = TSMin(t1, now)
            /\ ~TSLess(Ticks[nt.c3], InstantOf(nt.out.ret))

(***************************************************************************)
(* Properties of the client.                                               *)
(***************************************************************************)
SubmitOps == {"submit_report", "submit_report_v12"}

\* The operations that talk to the server.
NetworkOps ==
    {"get_token", "get_latest_reports", "get_report_details", "get_report_details_v12",
     "update_report", "delete_report", "query_latest_indicators",
     "get_correlated_reports", "query_indicators", "submit_report", "submit_report_v12"}

ApiOps == NetworkOps \ {"get_token"}

(***************************************************************************)
(* C1: a submission in enclave mode on a client without enclave ids raises *)
(* and has sent nothing, whatever its other arguments.                     *)
(***************************************************************************)
C1_EnclaveGuardBeforeRequest ==
    (/\ call.pc = "done"
     /\ call.op \in SubmitOps
     /\ call.args.enclave
     /\ Len(config.enclaveIds) = 0)
    => (call.raised /\ call.exc = "Exception" /\ wire = <<>> /\ call.resp = NoResponse)

C1_Witness ==
    /\ call.pc = "done"
    /\ call.op = "submit_report_v12"
    /\ call.args.enclave
    /\ call.args.began_time = NoneArg
    /\ config.enclaveIds = <<>>
    /\ call.raised
    /\ nCalls = 2
    /\ nSent = 1

(***************************************************************************)
(* C5 as stated: an API operation whose response has a non-success status  *)
(* raises an error that carries the status; it does not return a value.    *)
(***************************************************************************)
C5_NonSuccessStatusRaises ==
    (/\ call.pc = "done"
     /\ call.op \in ApiOps
     /\ call.resp.kind = "response"
     /\ ~HttpOk(call.resp.status))
    => (call.raised /\ call.exc = "HTTPError")

(***************************************************************************)
(* C6: every request of an operation other than get_token carries the      *)
(* header Authorization: Bearer <the token passed to the operation> and no *)
(* basic credentials; the request of get_token carries the api key and     *)
(* secret as basic credentials, the form grant_type=client_credentials and *)
(* no headers.                                                             *)
(***************************************************************************)
C6_BearerTokenOnEveryRequest ==
    \A i \in DOMAIN wire :
        IF call.op = "get_token"
        THEN /\ wire[i].auth = Some(<<config.apikey, config.apisecret>>)
             /\ wire[i].data = Some([grant_type |-> "client_credentials"])
             /\ wire[i].headers = None
        ELSE /\ wire[i].headers # None
             /\ "Authorization" \in DOMAIN wire[i].headers[1]
             /\ wire[i].headers[1]["Authorization"] = "Bearer " \o call.args.access_token
             /\ wire[i].auth = None

C6_Witness ==
    /\ call.pc = "done"
    /\ call.op = "get_correlated_reports"
    /\ call.args.access_token = "tok-B"
    /\ Len(wire) = 1
    /\ wire[1].headers = Some([Authorization |-> "Bearer tok-B"])

(***************************************************************************)
(* C7: an operation that talks to the server sends exactly one request,    *)
(* or none when it raised before sending (the enclave guard, a began_time  *)
(* that normalize_timestamp raises on); a missing or failed response is    *)
(* not followed by a second request, and over a run there are never more   *)
(* requests than operations invoked.                                       *)
(***************************************************************************)
C7_OneRequestPerOperation ==
    /\ nSent <= nCalls
    /\ (call.pc = "done" /\ call.op \in NetworkOps) =>
           Len(wire) = IF call.raised /\ call.exc \in {"Exception", "OverflowError"}
                       THEN 0 ELSE 1

C7_Witness ==
    /\ call.pc = "done"
    /\ call.op = "get_token"
    /\ call.resp = TransportError
    /\ call.raised
    /\ Len(wire) = 1
    /\ nCalls = 2
    /\ nSent = 2

(***************************************************************************)
(* C8: no operation changes the client's configuration: auth endpoint,     *)
(* base endpoint, api key, api secret, enclave ids and attribution flag    *)
(* are after every step what they were before it.                          *)
(***************************************************************************)
C8_ConfigurationUnchanged == [][config' = config]_vars

C8_Witness ==
    /\ call.pc = "done"
    /\ call.op = "update_report"
    /\ call.args.enclave_ids = Some(<<"e", "1", ",", "e", "2">>)
    /\ ~call.raised
    /\ config = Config(LabBase, <<"enc-1">>, TRUE)
    /\ nCalls = 2

(***************************************************************************)
(* Properties of RequestQuota.                                             *)
(***************************************************************************)
\* C9: to_dict() writes the six attributes under six different wire names,
\* each attribute under its own, and from_dict of that dict has every
\* attribute equal to the object's.
C9_RequestQuotaRoundTrip ==
    /\ rq.pc \in {"dict", "back"} =>
           /\ DOMAIN rq.d[1] = WireNames
           /\ Cardinality(DOMAIN rq.d[1]) = 6
           /\ rq.d[1]["guid"] = rq.x.guid
           /\ rq.d[1]["maxRequests"] = rq.x.max_requests
           /\ rq.d[1]["usedRequests"] = rq.x.used_requests
           /\ rq.d[1]["timeWindow"] = rq.x.time_window
           /\ rq.d[1]["lastResetTime"] = rq.x.last_reset_time
           /\ rq.d[1]["nextResetTime"] = rq.x.next_reset_time
    /\ rq.pc = "back" =>
           /\ rq.back # None
           /\ rq.back[1].guid = rq.x.guid
           /\ rq.back[1].max_requests = rq.x.max_requests
           /\ rq.back[1].used_requests = rq.x.used_requests
           /\ rq.back[1].time_window = rq.x.time_window
           /\ rq.back[1].last_reset_time = rq.x.last_reset_time
           /\ rq.back[1].next_reset_time = rq.x.next_reset_time

C9_Witness ==
    /\ rq.pc = "back"
    /\ rq.x = RequestQuota(Some("guid-1"), Some(2), Some(1), None, Some(1), Some(2))
    /\ rq.back = Some(rq.x)

\* C10: from_dict of None is None; of a dict it is an object whose every
\* attribute is the value under its wire name, None where the name is
\* missing, whatever other keys the dict holds.
C10_FromDictTolerant ==
    rq.pc = "parsed" =>
        IF rq.d = None THEN rq.back = None
        ELSE /\ rq.back # None
             /\ DOMAIN rq.back[1] = DOMAIN NoQuota
             /\ \A p \in {<<"guid", "guid">>, <<"max_requests", "maxRequests">>,
                          <<"used_requests", "usedRequests">>,
                          <<"time_window", "timeWindow">>,
                          <<"last_reset_time", "lastResetTime">>,
                          <<"next_reset_time", "nextResetTime">>} :
                    rq.back[1][p[1]] = IF p[2] \in DOMAIN rq.d[1] THEN rq.d[1][p[2]] ELSE None

C10_Witness ==
    /\ rq.pc = "parsed"
    /\ rq.d # None
    /\ DOMAIN rq.d[1] = {"guid", "usedRequests", "quotaType", "max_requests"}
    /\ rq.back = Some(RequestQuota(Some("guid-1"), None, Some(1), None, None, None))

(***************************************************************************)
(* The bodies a partial update may send for the arguments a: a JSON object *)
(* holding the fields the caller supplied and no other member.  The        *)
(* incidentReport object holds the supplied fields of the report and is    *)
(* left out or empty when none was supplied; an enclave_ids of '' counts   *)
(* as supplied or not.                                                     *)
(***************************************************************************)
Supplied(items) == SelectSeq(items, LAMBDA it : it[2].t # "None")

SuppliedBodies(a) ==
    LET report == Supplied(<< <<"title", PyOptText(a.title)>>,
                              <<"reportBody", PyOptText(a.report_body)>>,
                              <<"timeDiscovered", PyOptStr(a.time_discovered)>>,
                              <<"distributionType", PyOptStr(a.distribution)>> >>)
        enclaves == IF a.enclave_ids = None THEN {PyNone}
                    ELSE IF a.enclave_ids[1] = <<>>
                    THEN {PyNone, PyStr(""), PyList(<<>>)}
                    ELSE {PyStrList(StrEach(Split(a.enclave_ids[1], <<",">>)))}
        reports == IF report = <<>>
                   THEN {<<>>, << <<"incidentReport", PyDict(<<>>)>> >>}
                   ELSE {<< <<"incidentReport", PyDict(report)>> >>}
    IN  {json_dumps(PyDict(r \o Supplied(<< <<"enclaveIds", e>>,
                                            <<"attributedToMe", PyOptBool(a.attribution)>> >>))) :
            r \in reports, e \in enclaves}

(***************************************************************************)
(* C11 as stated: the body update_report sends holds the fields the caller *)
(* supplied and only those; a field left unset is not in the body (it is   *)
(* not sent as null).                                                      *)
(***************************************************************************)
C11_OnlySuppliedFieldsSent ==
    (call.pc = "done" /\ call.op = "update_report" /\ Len(wire) = 1) =>
        /\ wire[1].data # None
        /\ wire[1].data[1] \in SuppliedBodies(call.args)

(***************************************************************************)
(* C13 as stated: every request of a write operation (the two submissions, *)
(* update_report, delete_report) is sent with a timeout.                   *)
(***************************************************************************)
WriteOps == {"submit_report", "submit_report_v12", "update_report", "delete_report"}

C13_WritesHaveTimeout ==
    (call.pc = "done" /\ call.op \in WriteOps) =>
        \A i \in DOMAIN wire : wire[i].timeout # None

(***************************************************************************)
(* The body of a submission of arguments a by the client self whose        *)
(* timeBegan is the text given.                                            *)
(***************************************************************************)
SubmissionBody(op, self, a, timeBegan) ==
    LET common == << <<"timeBegan", PyStr(timeBegan)>>,
                     <<"reportBody", PyText(a.report_body_txt)>>,
                     <<"distributionType", PyStr(IF a.enclave THEN "ENCLAVE" ELSE "COMMUNITY")>> >>
        report == IF op = "submit_report_v12"
                  THEN << <<"title", PyText(a.report_name)>>,
                          <<"externalTrackingId", PyOptStr(a.external_id)>> >> \o common
                  ELSE << <<"title", PyText(a.report_name)>> >> \o common
    IN  json_dumps(PyDict(<< <<"incidentReport", PyDict(report)>>,
                             <<"enclaveIds", PyStrList(self.enclaveIds)>>,
                             <<"attributedToMe", PyBool(self.attributedToMe)>> >>))

\* A point in time as normalize_timestamp writes it in UTC.
UtcText(t) == Str(isoformat(DateTime(t, Some(0))))

(***************************************************************************)
(* C15: a submission called without began_time sends as timeBegan the      *)
(* instant at which the class was defined, in UTC, whatever the clock      *)
(* shows at the call, so all such calls of a process send the same         *)
(* timeBegan; a submission given began_time=None sends a reading of the    *)
(* clock taken during the call.                                            *)
(***************************************************************************)
C15_DefaultBeganTimeFixedAtDefinition ==
    (call.pc = "done" /\ call.op \in SubmitOps /\ Len(wire) = 1) =>
        /\ wire[1].data # None
        /\ call.args.began_default =>
               wire[1].data[1] = SubmissionBody(call.op, config, call.args, UtcText(ImportClock))
        /\ call.args.began_time = NoneArg =>
               \E i \in 1..env.clock :
                   wire[1].data[1] = SubmissionBody(call.op, config, call.args, UtcText(Ticks[i]))

\* The second default submission of a run, after the clock has moved on.
C15_Witness ==
    /\ call.pc = "done"
    /\ call.op = "submit_report"
    /\ call.args.began_default
    /\ nCalls = 2
    /\ nSent = 2
    /\ env.clock = 3
    /\ env.zone = ZoneEast
    /\ wire[1].data[1] = SubmissionBody("submit_report", config, call.args,
                                        "2017-11-05T05:33:20.500000+00:00")

(***************************************************************************)
(* C12: when a fetch of the report is answered with the report the service *)
(* holds, the value the fetch returns has as reportBody exactly the body   *)
(* the caller passed last for it (to the submission, or to a later         *)
(* update_report that gave a body) and as title exactly the title passed   *)
(* last, whatever characters they hold.                                    *)
(***************************************************************************)
FetchOps == {"get_report_details", "get_report_details_v12"}

C12_FetchedBodyIsSubmittedBody ==
    (/\ call.pc = "done"
     /\ call.op \in FetchOps
     /\ "text" \in DOMAIN call.resp.content)
    => /\ ~call.raised
       /\ submitted # None
       /\ py_get(call.ret, "reportBody") = PyText(submitted[1].body)
       /\ py_get(call.ret, "title") = PyText(submitted[1].title)

\* Submitted, updated with a body holding a quote, a backslash and a line
\* break, then fetched.
C12_Witness ==
    /\ call.pc = "done"
    /\ call.op = "get_report_details_v12"
    /\ nCalls = 3
    /\ nSent = 3
    /\ submitted = Some([title |-> <<"Report 1">>,
                         body |-> <<"say ", "\"", "hi", "\"", " c:", "\\", "n", "\n">>])
    /\ py_get(call.ret, "reportBody")
           = PyText(<<"say ", "\"", "hi", "\"", " c:", "\\", "n", "\n">>)
    /\ py_get(call.ret, "title") = PyText(<<"Report 1">>)

(***************************************************************************)
(* Properties of the paginator.                                            *)
(***************************************************************************)
RECURSIVE AllItems(_)
AllItems(pages) == IF pages = <<>> THEN <<>> ELSE Head(pages).items \o AllItems(Tail(pages))

IsPrefix(xs, ys) == Len(xs) <= Len(ys) /\ xs = SubSeq(ys, 1, Len(xs))

(***************************************************************************)
(* C14: over an endpoint of P pages, fetch_all has at every moment yielded *)
(* a prefix of the pages' items in the server's order and made at most P   *)
(* page requests; when the stream has ended, by an empty page or by a page *)
(* without next cursor, it has yielded all the items; and once the         *)
(* consumer has stopped, no page request is made.                          *)
(***************************************************************************)
C14_FetchAllLazyInOrder ==
    pg.pc # "off" =>
        /\ pg.requests <= Len(pg.pages)
        /\ IsPrefix(pg.yielded, AllItems(pg.pages))
        /\ pg.pc = "ended" => pg.yielded = AllItems(pg.pages)
        /\ pg.pc = "stopped" => pg.requests = pg.atStop
        /\ pg.pc \in {"idle", "stopped"} /\ pg.yielded = <<>> => pg.requests = 0

\* Three pages, the last one empty: all four items yielded after three requests.
C14_Witness ==
    /\ pg.pc = "ended"
    /\ Len(pg.pages) = 3
    /\ pg.pages[3].items = <<>>
    /\ pg.requests = 3
    /\ pg.yielded = << <<1, 1>>, <<1, 2>>, <<2, 1>>, <<2, 2>> >>

====
